---- MODULE Spec2Model ----
(***************************************************************************)
(* Model of src/src/06-objects-tasks.js: the cssSelectorBuilder facade.    *)
(*                                                                         *)
(* Every builder value is a JavaScript object made by Object.create(this): *)
(* it has a prototype link to the value the method was called on and may   *)
(* own a `parts` array and/or a `combined` triple.  Property reads         *)
(* (this.parts, this.combined) walk the prototype chain.  The heap holds   *)
(* the objects the caller can reach: heap[1] is the cssSelectorBuilder     *)
(* object itself, every later entry is a value returned by a call.         *)
(* Text is a sequence of one-character strings.                            *)
(***************************************************************************)
EXTENDS Integers, Sequences, FiniteSets, TLC

VARIABLES heap, last

vars == <<heap, last>>

(* Bounds: number of objects (the root included) the caller keeps, while   *)
(* all of them are append results and once a combine result is among them. *)
MaxObjs == 4
MaxCombinedObjs == 3

(* Inputs of the calls. *)
Values == {<<"a">>, <<"b">>}
Combinators == {<<" ">>, <<"+">>}

(* The two messages the append methods throw; NoError marks a normal return. *)
NoError == "none"
DuplicateMsg == "Element, id and pseudo-element should not occur more then one time inside the selector"
OrderMsg == "Selector parts should be arranged in the following order: element, id, class, attribute, pseudo-class, pseudo-element"

(* const order = [...] of validateOrder and stringify. *)
order == <<"element", "id", "class", "attr", "pseudoClass", "pseudoElement">>

(* Array.prototype.indexOf on `order`, 0-based, -1 when absent. *)
indexOf(t) ==
  IF \E i \in 1..Len(order) : order[i] = t
  THEN (CHOOSE i \in 1..Len(order) : order[i] = t) - 1
  ELSE -1

(* An absent `combined` property. *)
NoCombined == [selector1 |-> 0, combinator |-> <<>>, selector2 |-> 0]

(* The cssSelectorBuilder object literal: no own parts, no own combined;   *)
(* proto 0 stands for Object.prototype.                                    *)
cssSelectorBuilder ==
  [proto |-> 0, hasParts |-> FALSE, parts |-> <<>>,
   hasCombined |-> FALSE, combined |-> NoCombined]

(* Prototype-chain lookup of `parts`: the object owning it, 0 if undefined. *)
RECURSIVE PartsOwner(_, _)
PartsOwner(h, o) ==
  IF o = 0 THEN 0
  ELSE IF h[o].hasParts THEN o
  ELSE PartsOwner(h, h[o].proto)

(* Prototype-chain lookup of `combined`. *)
RECURSIVE CombinedOwner(_, _)
CombinedOwner(h, o) ==
  IF o = 0 THEN 0
  ELSE IF h[o].hasCombined THEN o
  ELSE CombinedOwner(h, h[o].proto)

(* if (this.parts) obj.parts = [...this.parts]; else obj.parts = []; *)
CloneParts(h, this) ==
  IF PartsOwner(h, this) # 0 THEN h[PartsOwner(h, this)].parts ELSE <<>>

(* obj.parts.some((part) => part.type === t) *)
some(parts, t) == \E i \in 1..Len(parts) : parts[i].type = t

(* validateOrder with <= in place of <. *)
validateOrder_nonStrict(parts, newType) ==
  \A i \in 1..Len(parts) : ~(indexOf(newType) <= indexOf(parts[i].type))

(* validateOrder that tests obj.parts[0] only. *)
validateOrder_firstOnly(parts, newType) ==
  \A i \in 1..Len(parts) : i = 1 => ~(indexOf(newType) < indexOf(parts[i].type))

(* validateOrder whose loop stops one element early. *)
validateOrder_offByOne(parts, newType) ==
  \A i \in 1..(Len(parts) - 1) : ~(indexOf(newType) < indexOf(parts[i].type))

(* validateOrder: TRUE when it returns, FALSE when it throws. *)
validateOrder(parts, newType) ==
  \A i \in 1..Len(parts) : ~(indexOf(newType) < indexOf(parts[i].type))

(* Outcomes of a call. *)
Throw(h, msg) == [err |-> msg, heap |-> h, ret |-> 0]
Return(h, obj) == [err |-> NoError, heap |-> Append(h, obj), ret |-> Len(h) + 1]

(* The object made by Object.create(cssSelectorBuilder) instead of          *)
(* Object.create(this).                                                    *)
NewSimple_rootProto(this, parts) ==
  [proto |-> 1, hasParts |-> TRUE, parts |-> parts,
   hasCombined |-> FALSE, combined |-> NoCombined]

(* The object an append method returns: Object.create(this) with own parts. *)
NewSimple(this, parts) ==
  [proto |-> this, hasParts |-> TRUE, parts |-> parts,
   hasCombined |-> FALSE, combined |-> NoCombined]

(* element that stores the array in this.parts instead of obj.parts. *)
element_writesThis(h, this, value) ==
  LET parts == CloneParts(h, this) IN
  IF some(parts, "element") THEN Throw(h, DuplicateMsg)
  ELSE IF ~validateOrder(parts, "element") THEN Throw(h, OrderMsg)
  ELSE Return([h EXCEPT ![this].hasParts = TRUE,
                        ![this].parts = Append(parts, [type |-> "element", value |-> value])],
              [proto |-> this, hasParts |-> FALSE, parts |-> <<>>,
               hasCombined |-> FALSE, combined |-> NoCombined])

(* element calling validateOrder before the duplicate test. *)
element_orderFirst(h, this, value) ==
  LET parts == CloneParts(h, this) IN
  IF ~validateOrder(parts, "element") THEN Throw(h, OrderMsg)
  ELSE IF some(parts, "element") THEN Throw(h, DuplicateMsg)
  ELSE Return(h, NewSimple(this, Append(parts, [type |-> "element", value |-> value])))

element(h, this, value) ==
  LET parts == CloneParts(h, this) IN
  IF some(parts, "element") THEN Throw(h, DuplicateMsg)
  ELSE IF ~validateOrder(parts, "element") THEN Throw(h, OrderMsg)
  ELSE Return(h, NewSimple(this, Append(parts, [type |-> "element", value |-> value])))

(* id without the duplicate check. *)
id_noDupCheck(h, this, value) ==
  LET parts == CloneParts(h, this) IN
  IF ~validateOrder(parts, "id") THEN Throw(h, OrderMsg)
  ELSE Return(h, NewSimple(this, Append(parts, [type |-> "id", value |-> value])))

id(h, this, value) ==
  LET parts == CloneParts(h, this) IN
  IF some(parts, "id") THEN Throw(h, DuplicateMsg)
  ELSE IF ~validateOrder(parts, "id") THEN Throw(h, OrderMsg)
  ELSE Return(h, NewSimple(this, Append(parts, [type |-> "id", value |-> value])))

(* class with obj.parts = this.parts (no copy): the push lands in the      *)
(* array the receiver reads.                                               *)
class_alias(h, this, value) ==
  LET owner == PartsOwner(h, this)
      parts == Append(CloneParts(h, this), [type |-> "class", value |-> value])
  IN
  IF ~validateOrder(CloneParts(h, this), "class") THEN Throw(h, OrderMsg)
  ELSE Return(IF owner = 0 THEN h ELSE [h EXCEPT ![owner].parts = parts],
              NewSimple(this, parts))

class(h, this, value) ==
  LET parts == CloneParts(h, this) IN
  IF ~validateOrder(parts, "class") THEN Throw(h, OrderMsg)
  ELSE Return(h, NewSimple(this, Append(parts, [type |-> "class", value |-> value])))

(* attr with obj.parts = this.parts (no copy) and the push made before     *)
(* validateOrder.                                                          *)
attr_aliasPushFirst(h, this, value) ==
  LET owner == PartsOwner(h, this)
      parts == Append(CloneParts(h, this), [type |-> "attr", value |-> value])
      pushed == IF owner = 0 THEN h ELSE [h EXCEPT ![owner].parts = parts]
  IN
  IF ~validateOrder(CloneParts(h, this), "attr") THEN Throw(pushed, OrderMsg)
  ELSE Return(pushed, NewSimple(this, parts))

attr(h, this, value) ==
  LET parts == CloneParts(h, this) IN
  IF ~validateOrder(parts, "attr") THEN Throw(h, OrderMsg)
  ELSE Return(h, NewSimple(this, Append(parts, [type |-> "attr", value |-> value])))

pseudoClass(h, this, value) ==
  LET parts == CloneParts(h, this) IN
  IF ~validateOrder(parts, "pseudoClass") THEN Throw(h, OrderMsg)
  ELSE Return(h, NewSimple(this, Append(parts, [type |-> "pseudoClass", value |-> value])))

(* pseudoElement without the duplicate check. *)
pseudoElement_noDupCheck(h, this, value) ==
  LET parts == CloneParts(h, this) IN
  IF ~validateOrder(parts, "pseudoElement") THEN Throw(h, OrderMsg)
  ELSE Return(h, NewSimple(this, Append(parts, [type |-> "pseudoElement", value |-> value])))

pseudoElement(h, this, value) ==
  LET parts == CloneParts(h, this) IN
  IF some(parts, "pseudoElement") THEN Throw(h, DuplicateMsg)
  ELSE IF ~validateOrder(parts, "pseudoElement") THEN Throw(h, OrderMsg)
  ELSE Return(h, NewSimple(this, Append(parts, [type |-> "pseudoElement", value |-> value])))

(* combine that gives its result an empty parts array of its own. *)
combine_freshParts(h, this, selector1, combinator, selector2) ==
  Return(h, [proto |-> this, hasParts |-> TRUE, parts |-> <<>>,
             hasCombined |-> TRUE,
             combined |-> [selector1 |-> selector1, combinator |-> combinator,
                           selector2 |-> selector2]])

(* combine storing its operands the other way round. *)
combine_swapped(h, this, selector1, combinator, selector2) ==
  Return(h, [proto |-> this, hasParts |-> FALSE, parts |-> <<>>,
             hasCombined |-> TRUE,
             combined |-> [selector1 |-> selector2, combinator |-> combinator,
                           selector2 |-> selector1]])

(* combine: Object.create(this) with an own `combined`, no own parts. *)
combine(h, this, selector1, combinator, selector2) ==
  Return(h, [proto |-> this, hasParts |-> FALSE, parts |-> <<>>,
             hasCombined |-> TRUE,
             combined |-> [selector1 |-> selector1, combinator |-> combinator,
                           selector2 |-> selector2]])

(* The comparator with its operands exchanged. *)
compare_reversed(a, b) == indexOf(b.type) - indexOf(a.type)

(* The comparator of the sort in stringify. *)
compare(a, b) == indexOf(a.type) - indexOf(b.type)

(* Array.prototype.sort with that comparator: a stable sort, here by       *)
(* insertion of each element after the elements that do not compare        *)
(* greater than it.                                                        *)
(* A sort that puts an element before the elements it compares equal to. *)
RECURSIVE InsertSorted_beforeEquals(_, _)
InsertSorted_beforeEquals(sorted, x) ==
  IF sorted = <<>> THEN <<x>>
  ELSE IF compare(Head(sorted), x) < 0
       THEN <<Head(sorted)>> \o InsertSorted_beforeEquals(Tail(sorted), x)
       ELSE <<x>> \o sorted

RECURSIVE InsertSorted(_, _)
InsertSorted(sorted, x) ==
  IF sorted = <<>> THEN <<x>>
  ELSE IF compare(Head(sorted), x) <= 0
       THEN <<Head(sorted)>> \o InsertSorted(Tail(sorted), x)
       ELSE <<x>> \o sorted

RECURSIVE sort(_)
sort(parts) ==
  IF parts = <<>> THEN <<>>
  ELSE InsertSorted(sort(SubSeq(parts, 1, Len(parts) - 1)), parts[Len(parts)])

(* render whose attr case leaves the bracket open. *)
render_noClose(part) ==
  CASE part.type = "element" -> part.value
    [] part.type = "id" -> <<"#">> \o part.value
    [] part.type = "class" -> <<".">> \o part.value
    [] part.type = "attr" -> <<"[">> \o part.value
    [] part.type = "pseudoClass" -> <<":">> \o part.value
    [] part.type = "pseudoElement" -> <<":", ":">> \o part.value
    [] OTHER -> <<>>

(* The switch of the map callback in stringify. *)
render(part) ==
  CASE part.type = "element" -> part.value
    [] part.type = "id" -> <<"#">> \o part.value
    [] part.type = "class" -> <<".">> \o part.value
    [] part.type = "attr" -> <<"[">> \o part.value \o <<"]">>
    [] part.type = "pseudoClass" -> <<":">> \o part.value
    [] part.type = "pseudoElement" -> <<":", ":">> \o part.value
    [] OTHER -> <<>>

(* sortedParts.map(...).join('') *)
RECURSIVE join(_)
join(parts) ==
  IF parts = <<>> THEN <<>> ELSE render(Head(parts)) \o join(Tail(parts))

(* stringify whose template has no spaces around the combinator. *)
RECURSIVE stringify_tight(_, _)
stringify_tight(h, this) ==
  IF CombinedOwner(h, this) # 0
  THEN LET c == h[CombinedOwner(h, this)].combined IN
       stringify_tight(h, c.selector1) \o c.combinator \o stringify_tight(h, c.selector2)
  ELSE IF PartsOwner(h, this) = 0 THEN <<>>
  ELSE join(sort(h[PartsOwner(h, this)].parts))

(* stringify testing this.parts before this.combined. *)
RECURSIVE stringify_partsFirst(_, _)
stringify_partsFirst(h, this) ==
  IF PartsOwner(h, this) # 0 THEN join(sort(h[PartsOwner(h, this)].parts))
  ELSE IF CombinedOwner(h, this) # 0
  THEN LET c == h[CombinedOwner(h, this)].combined IN
       stringify_partsFirst(h, c.selector1) \o <<" ">> \o c.combinator \o <<" ">>
         \o stringify_partsFirst(h, c.selector2)
  ELSE <<>>

RECURSIVE stringify(_, _)
stringify(h, this) ==
  IF CombinedOwner(h, this) # 0
  THEN LET c == h[CombinedOwner(h, this)].combined IN
       stringify(h, c.selector1) \o <<" ">> \o c.combinator \o <<" ">>
         \o stringify(h, c.selector2)
  ELSE IF PartsOwner(h, this) = 0 THEN <<>>
  ELSE join(sort(h[PartsOwner(h, this)].parts))

(***************************************************************************)
(* The state machine: the caller holds the objects of heap and calls any   *)
(* method on any of them with any argument; last records the latest call,  *)
(* the fragments this.parts gave it (seen) and its outcome.                *)
(***************************************************************************)
NoCall ==
  [op |-> "init", this |-> 0, seen |-> <<>>, args |-> NoCombined,
   err |-> NoError, ret |-> 0, text |-> <<>>]

(* The bound on the objects kept. *)
Bounded(h) ==
  IF \E i \in 1..Len(h) : h[i].hasCombined
  THEN Len(h) <= MaxCombinedObjs
  ELSE Len(h) <= MaxObjs

Init ==
  /\ heap = <<cssSelectorBuilder>>
  /\ last = NoCall

(* One call of an append method whose outcome is r. *)
Outcome(op, this, r) ==
  /\ Bounded(r.heap)
  /\ heap' = r.heap
  /\ last' = [op |-> op, this |-> this, seen |-> CloneParts(heap, this),
              args |-> NoCombined,
              err |-> r.err, ret |-> r.ret, text |-> <<>>]

CallElement(this, value) == Outcome("element", this, element(heap, this, value))

CallId(this, value) == Outcome("id", this, id(heap, this, value))

CallClass(this, value) == Outcome("class", this, class(heap, this, value))

CallAttr(this, value) == Outcome("attr", this, attr(heap, this, value))

CallPseudoClass(this, value) ==
  Outcome("pseudoClass", this, pseudoClass(heap, this, value))

CallPseudoElement(this, value) ==
  Outcome("pseudoElement", this, pseudoElement(heap, this, value))

CallCombine(this, selector1, combinator, selector2) ==
  LET r == combine(heap, this, selector1, combinator, selector2) IN
  /\ Len(heap) < MaxCombinedObjs
  /\ Bounded(r.heap)
  /\ heap' = r.heap
  /\ last' = [op |-> "combine", this |-> this, seen |-> CloneParts(heap, this),
              args |-> [selector1 |-> selector1, combinator |-> combinator,
                        selector2 |-> selector2],
              err |-> r.err, ret |-> r.ret, text |-> <<>>]

(* stringify that takes the fragments out of this.parts while rendering   *)
(* them.                                                                   *)
CallStringify_consuming(this) ==
  /\ heap' = IF CombinedOwner(heap, this) = 0 /\ PartsOwner(heap, this) # 0
             THEN [heap EXCEPT ![PartsOwner(heap, this)].parts = <<>>]
             ELSE heap
  /\ last' = [op |-> "stringify", this |-> this, seen |-> CloneParts(heap, this),
              args |-> NoCombined,
              err |-> NoError, ret |-> 0, text |-> stringify(heap, this)]

CallStringify(this) ==
  /\ heap' = heap
  /\ last' = [op |-> "stringify", this |-> this, seen |-> CloneParts(heap, this),
              args |-> NoCombined,
              err |-> NoError, ret |-> 0, text |-> stringify(heap, this)]

Objs == 1..Len(heap)

Next ==
  \/ \E this \in Objs, value \in Values : CallElement(this, value)
  \/ \E this \in Objs, value \in Values : CallId(this, value)
  \/ \E this \in Objs, value \in Values : CallClass(this, value)
  \/ \E this \in Objs, value \in Values : CallAttr(this, value)
  \/ \E this \in Objs, value \in Values : CallPseudoClass(this, value)
  \/ \E this \in Objs, value \in Values : CallPseudoElement(this, value)
  \/ \E this \in Objs, s1 \in Objs, c \in Combinators, s2 \in Objs :
       CallCombine(this, s1, c, s2)
  \/ \E this \in Objs : CallStringify(this)

Spec == Init /\ [][Next]_vars

(***************************************************************************)
(* getJSON and fromJSON.                                                   *)
(*                                                                         *)
(* Under SpecJSON the heap holds ordinary objects [proto, props]: props is *)
(* the ordered list of own properties [key, kind, value], kind being       *)
(* "data" (a writable enumerable data property), "getter" (an accessor     *)
(* without setter) or "protoAccessor" (the __proto__ accessor of           *)
(* Object.prototype).  A value is a tagged record; JSON text is a sequence *)
(* of tokens.  heap[1] is Object.prototype, heap[2] the prototype handed   *)
(* to fromJSON, heap[3] the value handed to getJSON.                       *)
(***************************************************************************)
JNumber(n) == [type |-> "number", num |-> n, str |-> "", props |-> <<>>]
JString(str) == [type |-> "string", num |-> 0, str |-> str, props |-> <<>>]
JNull == [type |-> "null", num |-> 0, str |-> "", props |-> <<>>]
JFunction == [type |-> "function", num |-> 0, str |-> "", props |-> <<>>]
JObject(props) == [type |-> "object", num |-> 0, str |-> "", props |-> props]

Tok(t, str) == [t |-> t, s |-> str]

(* Number::toString and its inverse in the JSON grammar, on one digit. *)
Digits == <<"0", "1", "2", "3", "4", "5", "6", "7", "8", "9">>
NumberToString(n) == Digits[n + 1]
StringToNumber(str) == (CHOOSE i \in 1..Len(Digits) : Digits[i] = str) - 1

(* The errors the built-ins throw. *)
SyntaxErrorMsg == "SyntaxError"
TypeErrorMsg == "TypeError"

(* Object.prototype, with its __proto__ accessor. *)
ObjectPrototype ==
  [proto |-> 0,
   props |-> <<[key |-> "__proto__", kind |-> "protoAccessor", value |-> JNull]>>]

(* The own enumerable data properties of an object, as [key, value]. *)
RECURSIVE OwnFields(_)
OwnFields(props) ==
  IF props = <<>> THEN <<>>
  ELSE (IF Head(props).kind = "data"
        THEN <<[key |-> Head(props).key, value |-> Head(props).value]>>
        ELSE <<>>) \o OwnFields(Tail(props))

(* JSON.stringify: SerializeJSONProperty and SerializeJSONObject.  The     *)
(* empty sequence stands for undefined (a function is not serialized).     *)
RECURSIVE SerializeJSONProperty(_)
RECURSIVE SerializeMembers(_)
SerializeMembers(fields) ==
  IF fields = <<>> THEN <<>>
  ELSE LET m == SerializeJSONProperty(Head(fields).value)
           rest == SerializeMembers(Tail(fields))
       IN IF m = <<>> THEN rest
          ELSE <<Tok("string", Head(fields).key), Tok("punct", ":")>> \o m
                 \o (IF rest = <<>> THEN <<>> ELSE <<Tok("punct", ",")>> \o rest)

SerializeJSONProperty(v) ==
  CASE v.type = "null" -> <<Tok("literal", "null")>>
    [] v.type = "number" -> <<Tok("number", NumberToString(v.num))>>
    [] v.type = "string" -> <<Tok("string", v.str)>>
    [] v.type = "object" ->
         <<Tok("punct", "{")>> \o SerializeMembers(v.props) \o <<Tok("punct", "}")>>
    [] OTHER -> <<>>

(* getJSON(obj): JSON.stringify(obj). *)
getJSON(h, obj) == SerializeJSONProperty(JObject(OwnFields(h[obj].props)))

(* CreateDataProperty on a list of fields. *)
CreateDataProperty(fields, key, value) ==
  IF \E i \in 1..Len(fields) : fields[i].key = key
  THEN [i \in 1..Len(fields) |->
          IF fields[i].key = key THEN [key |-> key, value |-> value] ELSE fields[i]]
  ELSE Append(fields, [key |-> key, value |-> value])

(* JSON.parse: a value read from position i of the tokens, as              *)
(* [ok, value, next].                                                      *)
TokenAt(toks, i) == IF i >= 1 /\ i <= Len(toks) THEN toks[i] ELSE Tok("end", "")

ParseFailed == [ok |-> FALSE, value |-> JNull, next |-> 0]

RECURSIVE ParseValue(_, _)
RECURSIVE ParseMembers(_, _, _)
ParseMembers(toks, i, fields) ==
  IF TokenAt(toks, i).t # "string" \/ TokenAt(toks, i + 1) # Tok("punct", ":")
  THEN ParseFailed
  ELSE LET v == ParseValue(toks, i + 2) IN
       IF ~v.ok THEN ParseFailed
       ELSE LET now == CreateDataProperty(fields, TokenAt(toks, i).s, v.value) IN
            IF TokenAt(toks, v.next) = Tok("punct", ",")
            THEN ParseMembers(toks, v.next + 1, now)
            ELSE IF TokenAt(toks, v.next) = Tok("punct", "}")
            THEN [ok |-> TRUE, value |-> JObject(now), next |-> v.next + 1]
            ELSE ParseFailed

ParseValue(toks, i) ==
  LET tok == TokenAt(toks, i) IN
  CASE tok = Tok("literal", "null") -> [ok |-> TRUE, value |-> JNull, next |-> i + 1]
    [] tok.t = "number" ->
         [ok |-> TRUE, value |-> JNumber(StringToNumber(tok.s)), next |-> i + 1]
    [] tok.t = "string" -> [ok |-> TRUE, value |-> JString(tok.s), next |-> i + 1]
    [] tok = Tok("punct", "{") ->
         IF TokenAt(toks, i + 1) = Tok("punct", "}")
         THEN [ok |-> TRUE, value |-> JObject(<<>>), next |-> i + 2]
         ELSE ParseMembers(toks, i + 1, <<>>)
    [] OTHER -> ParseFailed

JSONparse(toks) ==
  LET r == ParseValue(toks, 1) IN
  IF r.ok /\ r.next = Len(toks) + 1 THEN r ELSE ParseFailed

(* The fields of a parsed object as own data properties. *)
DataProps(fields) ==
  [i \in 1..Len(fields) |->
     [key |-> fields[i].key, kind |-> "data", value |-> fields[i].value]]

HasOwn(obj, key) == \E i \in 1..Len(obj.props) : obj.props[i].key = key

OwnProp(obj, key) == obj.props[CHOOSE i \in 1..Len(obj.props) : obj.props[i].key = key]

(* The first object on the prototype chain of o that has the property,     *)
(* 0 if none has.                                                          *)
RECURSIVE PropHolder(_, _, _)
PropHolder(h, o, key) ==
  IF o = 0 THEN 0
  ELSE IF HasOwn(h[o], key) THEN o
  ELSE PropHolder(h, h[o].proto, key)

(* target[key] = value: the ordinary [[Set]] as Object.assign uses it,     *)
(* giving [err, heap].                                                     *)
SetProperty(h, target, key, value) ==
  LET holder == PropHolder(h, target, key)
      kind == IF holder = 0 THEN "none" ELSE OwnProp(h[holder], key).kind
  IN
  CASE kind = "getter" -> [err |-> TypeErrorMsg, heap |-> h]
    [] kind = "protoAccessor" ->
         IF value.type = "object"
         THEN [err |-> NoError,
               heap |-> Append([h EXCEPT ![target].proto = Len(h) + 1],
                               [proto |-> 1, props |-> DataProps(value.props)])]
         ELSE IF value.type = "null"
         THEN [err |-> NoError, heap |-> [h EXCEPT ![target].proto = 0]]
         ELSE [err |-> NoError, heap |-> h]
    [] kind = "data" /\ holder = target ->
         [err |-> NoError,
          heap |-> [h EXCEPT ![target].props =
                      [i \in 1..Len(h[target].props) |->
                         IF h[target].props[i].key = key
                         THEN [key |-> key, kind |-> "data", value |-> value]
                         ELSE h[target].props[i]]]]
    [] OTHER ->
         [err |-> NoError,
          heap |-> [h EXCEPT ![target].props =
                      Append(h[target].props,
                             [key |-> key, kind |-> "data", value |-> value])]]

(* Object.assign(obj, data): every own field of data set on obj, in order. *)
RECURSIVE ObjectAssign(_, _, _)
ObjectAssign(h, target, fields) ==
  IF fields = <<>> THEN [err |-> NoError, heap |-> h]
  ELSE LET r == SetProperty(h, target, Head(fields).key, Head(fields).value) IN
       IF r.err # NoError THEN r
       ELSE ObjectAssign(r.heap, target, Tail(fields))

(* fromJSON(proto, json), giving [err, heap, ret]. *)
fromJSON(h, proto, json) ==
  LET created == Append(h, [proto |-> proto, props |-> <<>>])
      obj == Len(h) + 1
      data == JSONparse(json)
  IN
  IF ~data.ok THEN [err |-> SyntaxErrorMsg, heap |-> h, ret |-> 0]
  ELSE LET r == ObjectAssign(created, obj,
                             IF data.value.type = "object" THEN data.value.props
                             ELSE <<>>)
       IN IF r.err # NoError THEN [err |-> r.err, heap |-> h, ret |-> 0]
          ELSE [err |-> NoError, heap |-> r.heap, ret |-> obj]

(* Inputs: the prototypes and the values with plain-data own fields. *)
Keys == {"radius", "__proto__"}

FieldValues ==
  {JNumber(1), JString("s"), JNull,
   JObject(<<[key |-> "x", value |-> JNumber(1)]>>)}

FieldLists ==
  {<<>>}
    \cup {<<[key |-> k, value |-> v]>> : k \in Keys, v \in FieldValues}
    \cup {f \in {<<[key |-> k1, value |-> v1], [key |-> k2, value |-> v2]>> :
                   k1 \in Keys, k2 \in Keys, v1 \in FieldValues, v2 \in FieldValues} :
            f[1].key # f[2].key}

(* A prototype that holds a method, like Circle.prototype; one that holds  *)
(* a getter named like a field; one made with Object.create(null).         *)
Protos ==
  {[proto |-> 1, props |-> <<[key |-> "getArea", kind |-> "data", value |-> JFunction]>>],
   [proto |-> 1, props |-> <<[key |-> "radius", kind |-> "getter", value |-> JNull]>>],
   [proto |-> 0, props |-> <<[key |-> "getArea", kind |-> "data", value |-> JFunction]>>]}

TheProto == 2
TheValue == 3

NoJSONCall == [op |-> "init", arg |-> 0, text |-> <<>>, err |-> NoError, ret |-> 0]

InitJSON ==
  /\ \E P \in Protos, fields \in FieldLists :
       heap = <<ObjectPrototype, P, [proto |-> 1, props |-> DataProps(fields)]>>
  /\ last = NoJSONCall

CallGetJSON(obj) ==
  /\ last.op = "init"
  /\ heap' = heap
  /\ last' = [op |-> "getJSON", arg |-> obj, text |-> getJSON(heap, obj),
              err |-> NoError, ret |-> 0]

(* fromJSON called with the text getJSON returned. *)
CallFromJSON(proto) ==
  /\ last.op = "getJSON"
  /\ LET r == fromJSON(heap, proto, last.text) IN
     /\ heap' = r.heap
     /\ last' = [op |-> "fromJSON", arg |-> proto, text |-> last.text,
                 err |-> r.err, ret |-> r.ret]

NextJSON ==
  \/ CallGetJSON(TheValue)
  \/ CallFromJSON(TheProto)

SpecJSON == InitJSON /\ [][NextJSON]_vars

(***************************************************************************)
(* Vocabulary of the properties.                                           *)
(***************************************************************************)
AppendOps == {"element", "id", "class", "attr", "pseudoClass", "pseudoElement"}
UniqueOps == {"element", "id", "pseudoElement"}

(* Canonical rank of a fragment kind, as the specification numbers it. *)
Rank(t) ==
  CASE t = "element" -> 0
    [] t = "id" -> 1
    [] t = "class" -> 2
    [] t = "attr" -> 3
    [] t = "pseudoClass" -> 4
    [] t = "pseudoElement" -> 5

(* The kinds of a fragment sequence, in sequence order. *)
Types(parts) == [i \in 1..Len(parts) |-> parts[i].type]

(* Some fragment of parts has a rank above that of kind t. *)
HasHigherRank(parts, t) == \E i \in 1..Len(parts) : Rank(t) < Rank(parts[i].type)

(* Number of fragments of kind t in parts. *)
Count(parts, t) == Cardinality({i \in 1..Len(parts) : parts[i].type = t})

(* A value that is a simple selector: no combinator triple is visible from it. *)
IsSimple(h, o) == CombinedOwner(h, o) = 0

(* In a step: the fragments the receiver of the call recorded in last'     *)
(* held before the step.                                                   *)
ReceiverParts == CloneParts(heap, last'.this)

(* C1: calling element, id or pseudoElement on a value whose fragments     *)
(* already hold a fragment of that kind raises the duplicate error,        *)
(* whatever else is present.                                               *)
C1_DuplicateRaises ==
  (last.op \in UniqueOps /\ some(last.seen, last.op)) => last.err = DuplicateMsg

(* element('div').id('main') then id(..) on the result raised the          *)
(* duplicate error.                                                        *)
C1_Witness ==
  /\ last.op = "id"
  /\ last.err = DuplicateMsg
  /\ Types(last.seen) = <<"element", "id">>

(* C2 as stated: an append whose rank is lower than that of a fragment     *)
(* already present raises the order-violation error, also when the         *)
(* appended kind is itself already present.                                *)
C2_OrderAlwaysRaises ==
  (last.op \in AppendOps /\ HasHigherRank(last.seen, last.op))
    => last.err = OrderMsg

(* C2 amended: such an append raises the order-violation error unless the  *)
(* appended kind is element or id and is itself already present; then the  *)
(* duplicate error is raised instead.                                      *)
C2_OrderRaisesUnlessDuplicate ==
  (last.op \in AppendOps /\ HasHigherRank(last.seen, last.op))
    => last.err = IF last.op \in UniqueOps /\ some(last.seen, last.op)
                  THEN DuplicateMsg ELSE OrderMsg

(* id called after class on the same chain raised the order error. *)
C2_Witness ==
  /\ last.op = "id"
  /\ last.err = OrderMsg
  /\ some(last.seen, "class")

(* C3: a call that raises changes nothing: every object is as before and   *)
(* no new object is reachable.                                             *)
C3_ErrorLeavesStateUntouched ==
  [][ last'.err # NoError => (heap' = heap /\ last'.ret = 0) ]_vars

(* A call raised while the caller held the root and two derived values. *)
C3_Witness ==
  /\ last.err # NoError
  /\ Len(heap) >= 3
  /\ CloneParts(heap, last.this) # <<>>

(* C4: a successful append or combine returns a new value and leaves every *)
(* existing value, the receiver included, with the same fragments and the  *)
(* same text; an append result holds its parent's fragments followed by    *)
(* its own fragment only, and this stays so for every value kept.          *)
C4_ReceiverUnchanged ==
  [][ (last'.op \in AppendOps \cup {"combine"} /\ last'.err = NoError) =>
        /\ Len(heap') = Len(heap) + 1
        /\ last'.ret = Len(heap')
        /\ \A o \in 1..Len(heap) :
             /\ heap'[o] = heap[o]
             /\ stringify(heap', o) = stringify(heap, o)
        /\ last'.op \in AppendOps =>
             /\ heap'[last'.ret].hasParts
             /\ Len(heap'[last'.ret].parts) = Len(ReceiverParts) + 1
             /\ SubSeq(heap'[last'.ret].parts, 1, Len(ReceiverParts)) = ReceiverParts
             /\ heap'[last'.ret].parts[Len(ReceiverParts) + 1].type = last'.op
        /\ \A o \in 2..Len(heap') :
             heap'[o].hasParts =>
               SubSeq(heap'[o].parts, 1, Len(heap'[o].parts) - 1)
                 = CloneParts(heap', heap'[o].proto) ]_vars

(* Two values derived separately from one parent that holds fragments, the *)
(* second just returned.                                                   *)
C4_Witness ==
  /\ last.op \in AppendOps
  /\ last.err = NoError
  /\ \E o \in 2..Len(heap) :
       /\ o # last.ret
       /\ heap[o].hasParts
       /\ heap[o].proto = last.this
       /\ heap[o].parts # heap[last.ret].parts
       /\ CloneParts(heap, last.this) # <<>>

(* Reading a stringify result of a simple selector: the rank of the        *)
(* fragment that starts at position i of the text, -1 if none starts       *)
(* there.  Values are letters, so the punctuation marks the fragments.     *)
FragmentRankAt(text, i) ==
  IF text[i] = "#" THEN 1
  ELSE IF text[i] = "." THEN 2
  ELSE IF text[i] = "[" THEN 3
  ELSE IF text[i] = ":"
       THEN IF i > 1 /\ text[i - 1] = ":" THEN -1
            ELSE IF i < Len(text) /\ text[i + 1] = ":" THEN 5
            ELSE 4
  ELSE IF i = 1 THEN 0
  ELSE -1

FragmentStarts(text) == {i \in 1..Len(text) : FragmentRankAt(text, i) >= 0}

(* C5: in the text stringify returns for a simple selector no fragment of  *)
(* a higher rank comes before a fragment of a lower rank.                  *)
C5_OutputInRankOrder ==
  (last.op = "stringify" /\ IsSimple(heap, last.this)) =>
    /\ Cardinality(FragmentStarts(last.text)) = Len(CloneParts(heap, last.this))
    /\ \A i, j \in FragmentStarts(last.text) :
         i < j => FragmentRankAt(last.text, i) <= FragmentRankAt(last.text, j)

(* stringify returned the text of a simple selector with fragments of      *)
(* three different kinds.                                                  *)
C5_Witness ==
  /\ last.op = "stringify"
  /\ IsSimple(heap, last.this)
  /\ Cardinality({FragmentRankAt(last.text, i) : i \in FragmentStarts(last.text)}) = 3

(* The rendering of one fragment as the specification words it. *)
Prefix(t) ==
  CASE t = "element" -> <<>>
    [] t = "id" -> <<"#">>
    [] t = "class" -> <<".">>
    [] t = "attr" -> <<"[">>
    [] t = "pseudoClass" -> <<":">>
    [] t = "pseudoElement" -> <<":", ":">>

Suffix(t) == IF t = "attr" THEN <<"]">> ELSE <<>>

(* Each fragment of parts rendered once, in sequence order, no separator. *)
RECURSIVE Concatenated(_)
Concatenated(parts) ==
  IF parts = <<>> THEN <<>>
  ELSE Concatenated(SubSeq(parts, 1, Len(parts) - 1))
         \o Prefix(parts[Len(parts)].type) \o parts[Len(parts)].value
         \o Suffix(parts[Len(parts)].type)

(* C6: for a simple selector stringify returns the renderings of its       *)
(* fragments concatenated with no separator, each fragment once, nothing   *)
(* else.                                                                   *)
C6_ConcatenationOfRenderings ==
  (last.op = "stringify" /\ IsSimple(heap, last.this)) =>
    last.text = Concatenated(CloneParts(heap, last.this))

(* stringify of element(..).attr(..).pseudoClass(..). *)
C6_Witness ==
  /\ last.op = "stringify"
  /\ IsSimple(heap, last.this)
  /\ Types(CloneParts(heap, last.this)) = <<"element", "attr", "pseudoClass">>
  /\ Len(last.text) = 6

(* C7: combine never raises, and the text of its result is the text of its *)
(* first operand, a space, the combinator, a space, the text of its second *)
(* operand, whatever the operands are.                                     *)
C7_CombineText ==
  last.op = "combine" =>
    /\ last.err = NoError
    /\ stringify(heap, last.ret) =
         stringify(heap, last.args.selector1) \o <<" ">> \o last.args.combinator
           \o <<" ">> \o stringify(heap, last.args.selector2)

(* combine returned with a first operand that is itself a combine result   *)
(* and differs from the second operand.                                    *)
C7_Witness ==
  /\ last.op = "combine"
  /\ heap[last.args.selector1].hasCombined
  /\ stringify(heap, last.args.selector1) # stringify(heap, last.args.selector2)

(* C8 as stated: with the combinator ' ' exactly two spaces stand between  *)
(* the texts of the operands.                                              *)
C8_TwoSpaces ==
  (last.op = "combine" /\ last.args.combinator = <<" ">>) =>
    stringify(heap, last.ret) =
      stringify(heap, last.args.selector1) \o <<" ", " ">>
        \o stringify(heap, last.args.selector2)

(* C8 amended: with the combinator ' ' exactly three spaces stand between  *)
(* the texts of the operands.                                              *)
C8_ThreeSpaces ==
  (last.op = "combine" /\ last.args.combinator = <<" ">>) =>
    stringify(heap, last.ret) =
      stringify(heap, last.args.selector1) \o <<" ", " ", " ">>
        \o stringify(heap, last.args.selector2)

(* combine with ' ' returned for two operands that hold fragments. *)
C8_Witness ==
  /\ last.op = "combine"
  /\ last.args.combinator = <<" ">>
  /\ stringify(heap, last.args.selector1) # <<>>
  /\ stringify(heap, last.args.selector2) # <<>>

(* C9: the text of a combine result does not depend on the receiver: it is *)
(* the text the same call on the root builder gives, and two results of    *)
(* the same operands and combinator have the same text.                    *)
C9_ReceiverIndependent ==
  /\ last.op = "combine" =>
       LET r == combine(heap, 1, last.args.selector1, last.args.combinator,
                        last.args.selector2)
       IN stringify(heap, last.ret) = stringify(r.heap, r.ret)
  /\ \A o, q \in 1..Len(heap) :
       (heap[o].hasCombined /\ heap[q].hasCombined
          /\ heap[o].combined = heap[q].combined)
         => stringify(heap, o) = stringify(heap, q)

(* combine returned for a receiver that holds fragments. *)
C9_Witness ==
  /\ last.op = "combine"
  /\ CloneParts(heap, last.this) # <<>>
  /\ stringify(heap, last.this) # <<>>

(* C10: every value holds at most one element, one id and one              *)
(* pseudoElement fragment.                                                 *)
C10_UniqueKindsAtMostOnce ==
  \A o \in 1..Len(heap) : \A t \in UniqueOps : Count(CloneParts(heap, o), t) <= 1

(* A value with two class fragments exists after a call that raised. *)
C10_Witness ==
  /\ last.err # NoError
  /\ \E o \in 1..Len(heap) : Count(CloneParts(heap, o), "class") = 2

(* C11: the root builder is never touched: it keeps no fragments and no    *)
(* combinator, its text is empty, and element, id or pseudoElement called  *)
(* on it never raise, whatever was built or raised before.                 *)
C11_RootUntouched ==
  /\ heap[1] = cssSelectorBuilder
  /\ stringify(heap, 1) = <<>>
  /\ (last.this = 1 /\ last.op \in UniqueOps) => last.err = NoError
  /\ (last.this = 1 /\ last.op = "stringify") => last.text = <<>>

(* element called on the root returned while a chain with an element       *)
(* built earlier from the root is kept.                                    *)
C11_Witness ==
  /\ last.op = "element"
  /\ last.this = 1
  /\ last.err = NoError
  /\ \E o \in 2..Len(heap) :
       o # last.ret /\ some(CloneParts(heap, o), "element")

(* The own fields of an object as a set of <<key, value>>. *)
FieldSet(obj) ==
  {<<obj.props[i].key, obj.props[i].value>> :
     i \in {j \in 1..Len(obj.props) : obj.props[j].kind = "data"}}

(* C12: fromJSON(P, getJSON(v)) returns a new object whose prototype is P  *)
(* and whose own fields are exactly v's fields with the same values.       *)
C12_RoundTrip ==
  last.op = "fromJSON" =>
    /\ last.err = NoError
    /\ last.ret > TheValue
    /\ heap[last.ret].proto = TheProto
    /\ FieldSet(heap[last.ret]) = FieldSet(heap[TheValue])

(* The condition under which the specification lets kind t be appended to  *)
(* the fragments parts.                                                    *)
AppendAllowed(parts, t) ==
  /\ t \in UniqueOps => Count(parts, t) = 0
  /\ \A i \in 1..Len(parts) : Rank(parts[i].type) <= Rank(t)

(* C13: an append of kind k to a simple selector succeeds exactly when k   *)
(* is repeatable or absent and no fragment has a rank above k's;           *)
(* pseudoElement fails with the duplicate error only.                      *)
C13_AppendSucceedsIff ==
  (last.op \in AppendOps /\ IsSimple(heap, last.this)) =>
    /\ last.err = NoError <=> AppendAllowed(last.seen, last.op)
    /\ (last.op = "pseudoElement" /\ last.err # NoError) => last.err = DuplicateMsg

(* class appended with success after an id and a class. *)
C13_Witness ==
  /\ last.op = "class"
  /\ IsSimple(heap, last.this)
  /\ last.err = NoError
  /\ Types(last.seen) = <<"id", "class">>

(* Reading a stringify result of a simple selector: the position after the *)
(* value that starts at position j.                                        *)
RECURSIVE ValueEnd(_, _)
ValueEnd(text, j) ==
  IF j > Len(text) \/ text[j] \in {"#", ".", "[", "]", ":"} THEN j
  ELSE ValueEnd(text, j + 1)

(* The values of the fragments of rank r in text, from position i on, in   *)
(* text order.                                                             *)
RECURSIVE ValuesOfRank(_, _, _)
ValuesOfRank(text, r, i) ==
  IF i > Len(text) THEN <<>>
  ELSE IF FragmentRankAt(text, i) = r
       THEN LET from == IF r = 0 THEN i ELSE IF r = 5 THEN i + 2 ELSE i + 1 IN
            <<SubSeq(text, from, ValueEnd(text, from) - 1)>>
              \o ValuesOfRank(text, r, i + 1)
       ELSE ValuesOfRank(text, r, i + 1)

(* The values of the fragments of kind t in parts, in sequence order. *)
RECURSIVE ValuesOfType(_, _)
ValuesOfType(parts, t) ==
  IF parts = <<>> THEN <<>>
  ELSE (IF Head(parts).type = t THEN <<Head(parts).value>> ELSE <<>>)
         \o ValuesOfType(Tail(parts), t)

(* C14: in the text stringify returns for a simple selector the fragments  *)
(* of one kind appear in the order they were appended.                     *)
C14_EqualRankKeepsInsertionOrder ==
  (last.op = "stringify" /\ IsSimple(heap, last.this)) =>
    \A t \in AppendOps :
      ValuesOfRank(last.text, Rank(t), 1) = ValuesOfType(last.seen, t)

(* stringify of id(..).class(x).class(y) with x different from y. *)
C14_Witness ==
  /\ last.op = "stringify"
  /\ IsSimple(heap, last.this)
  /\ Types(last.seen) = <<"id", "class", "class">>
  /\ last.seen[2].value # last.seen[3].value

(* C15: stringify changes no object, and the text of a value is the same   *)
(* whenever it is asked for, whatever was called in between.               *)
C15_StringifyPure ==
  [][ /\ last'.op = "stringify" =>
           /\ heap' = heap
           /\ last'.text = stringify(heap', last'.this)
      /\ \A o \in 1..Len(heap) :
           /\ o <= Len(heap')
           /\ stringify(heap', o) = stringify(heap, o) ]_vars

(* stringify returned the text of a combined selector whose operand holds  *)
(* fragments.                                                              *)
C15_Witness ==
  /\ last.op = "stringify"
  /\ ~IsSimple(heap, last.this)
  /\ Len(last.text) > 3

(* The ranks of parts never decrease along the sequence. *)
RankSorted(parts) ==
  \A i, j \in 1..Len(parts) : i < j => Rank(parts[i].type) <= Rank(parts[j].type)

(* C16: the fragments of every value are held in non-decreasing rank       *)
(* order, so the sort of stringify moves nothing.                          *)
C16_PartsHeldInRankOrder ==
  \A o \in 1..Len(heap) :
    /\ RankSorted(CloneParts(heap, o))
    /\ sort(CloneParts(heap, o)) = CloneParts(heap, o)

(* A value with three fragments, two of them of one kind. *)
C16_Witness ==
  \E o \in 1..Len(heap) :
    /\ Len(heap[o].parts) = 3
    /\ Cardinality({heap[o].parts[i].type : i \in 1..3}) = 2

(* C17: when an append of element, id or pseudoElement both repeats a kind *)
(* and has a lower rank than a fragment present, the duplicate error is    *)
(* the one raised.                                                         *)
C17_DuplicateBeforeOrder ==
  (last.op \in UniqueOps /\ some(last.seen, last.op)
     /\ HasHigherRank(last.seen, last.op))
    => (last.err = DuplicateMsg /\ last.err # OrderMsg)

(* element called on element(..).id(..). *)
C17_Witness ==
  /\ last.op = "element"
  /\ Types(last.seen) = <<"element", "id">>
  /\ last.err = DuplicateMsg

(* C18: a value appended to a combine result has the text of that combine  *)
(* result: its own fragments are not rendered.                             *)
C18_AppendsOnCombinedNotRendered ==
  /\ (last.op \in AppendOps /\ last.err = NoError /\ ~IsSimple(heap, last.this))
       => stringify(heap, last.ret) = stringify(heap, last.this)
  /\ \A o \in 2..Len(heap) :
       (heap[o].hasParts /\ ~IsSimple(heap, o))
         => stringify(heap, o) = stringify(heap, CombinedOwner(heap, o))

(* An append on a combine result returned. *)
C18_Witness ==
  /\ last.op \in AppendOps
  /\ last.err = NoError
  /\ heap[last.this].hasCombined
  /\ heap[last.ret].parts # <<>>

(* C19: a combine result reads the fragments of the value combine was      *)
(* called on, and an append on it is judged on those fragments, not on the *)
(* operands: element on it raises the duplicate error exactly when the     *)
(* receiver of combine held an element.                                    *)
C19_CombineInheritsReceiverParts ==
  /\ last.op = "combine" => CloneParts(heap, last.ret) = last.seen
  /\ (last.op \in AppendOps /\ heap[last.this].hasCombined) =>
       /\ last.seen = CloneParts(heap, heap[last.this].proto)
       /\ last.err = NoError <=> AppendAllowed(last.seen, last.op)
       /\ last.op = "element" =>
            (last.err = DuplicateMsg <=> some(CloneParts(heap, heap[last.this].proto), "element"))

(* element raised the duplicate error on the result of combine called on a *)
(* value that holds an element, the operands holding none.                 *)
C19_Witness ==
  /\ last.op = "element"
  /\ heap[last.this].hasCombined
  /\ last.err = DuplicateMsg
  /\ ~some(CloneParts(heap, heap[last.this].combined.selector1), "element")
  /\ ~some(CloneParts(heap, heap[last.this].combined.selector2), "element")

====
